---- MODULE Spec2Model ----
(***************************************************************************)
(* Model of internal/generator.go: the cache-aside Generate workflow and   *)
(* the CleanUp sweep of cachingGenerator.  Every call the generator makes  *)
(* on a collaborator (cache store, filesystem, mermaid CLI) is one atomic  *)
(* step of the calling process, so that concurrent calls interleave at     *)
(* exactly the points where the Go code can be pre-empted observably.      *)
(***************************************************************************)
EXTENDS Integers, Sequences, FiniteSets, TLC

\* ------------------------------------------------------------------ bounds
MaxTime == 1
MaxWindow == 1

Procs == {"p1", "p2"}
Descriptions == {"graphA"}
ImgTypes == {"svg", "png"}
Windows == 0..MaxWindow

VARIABLES
    now,        \* the wall clock read by time.Now()
    cache,      \* the DiagramCache: identity -> stored Diagram or NoDiagram
    files,      \* the paths present in the input and output directories
    pc,         \* position of each process inside Generate / CleanUp
    diagram,    \* Generate: the caller's *Diagram; delete: its argument
    has,        \* Generate: the local "has"
    diagrams,   \* CleanUp: the elements of the slice returned by cache.GetAll
                \* that the range loop has not visited yet
    duration,   \* CleanUp: its argument
    result,     \* the error (or "ok") the finished call returns
    calls,      \* history: collaborator calls made by the current Generate call
    intact      \* history: at GetAll every record was stale, and the files on disk
                \* were exactly the input and output files of the records

vars == <<now, cache, files, pc, diagram, has, diagrams, duration, result, calls, intact>>

\* ------------------------------------------------------------- data model
NoDiagram == [absent |-> TRUE]
NoOutput == <<>>

\* Diagram.ID(): the content fingerprint of description and image type.
ID(d) == <<d.description, d.imgType>>

Ids == {<<de, ty>> : de \in Descriptions, ty \in ImgTypes}

\* NewDiagram: the Diagram a caller hands to Generate.
NewDiagram(de, ty) ==
    [description |-> de, imgType |-> ty, Output |-> NoOutput, lastTouched |-> 0]

\* Diagram.Touch(): lastTouched := time.Now().
Touch(d) == [d EXCEPT !.lastTouched = now]

\* Diagram.TouchedInDuration(duration): touched recently enough to keep.
TouchedInDuration(d, w) == d.lastTouched >= now - w

\* generate: inPath := fmt.Sprintf("%s/%s.mmd", c.inPath, id)
InPath(id) == <<"in", id, "mmd">>

\* generate: outPath := fmt.Sprintf("%s/%s.%s", c.outPath, id, diagram.imgType)
OutPathM(id, ty) == <<"out", id, ty, now>>
OutPath(id, ty) == <<"out", id, ty>>

\* delete: outPath := fmt.Sprintf("%s/%s.svg", c.outPath, id)
DeleteOutPath(id) == <<"out", id, "svg">>

\* ------------------------------------------------------------ cache store
CacheHas(d) == cache[ID(d)] # NoDiagram
CacheGet(d) == cache[ID(d)]
CacheStore(d) == [cache EXCEPT ![ID(d)] = d]
CacheDelete(d) == [cache EXCEPT ![ID(d)] = NoDiagram]
CacheGetAll == {cache[i] : i \in {j \in Ids : cache[j] # NoDiagram}}

\* ----------------------------------------------------------------- helpers
Goto(p, l) == pc' = [pc EXCEPT ![p] = l]
Return(p, l, r) == /\ pc' = [pc EXCEPT ![p] = l]
                   /\ result' = [result EXCEPT ![p] = r]
Called(p, op) == calls' = [calls EXCEPT ![p] = Append(@, op)]

Init ==
    /\ now = 0
    /\ cache = [i \in Ids |-> NoDiagram]
    /\ files = {}
    /\ pc = [p \in Procs |-> "idle"]
    /\ diagram = [p \in Procs |-> NoDiagram]
    /\ has = [p \in Procs |-> FALSE]
    /\ diagrams = [p \in Procs |-> {}]
    /\ duration = [p \in Procs |-> 0]
    /\ result = [p \in Procs |-> "none"]
    /\ calls = [p \in Procs |-> <<>>]
    /\ intact = [p \in Procs |-> FALSE]

\* time passes
Tick ==
    /\ now < MaxTime
    /\ now' = now + 1
    /\ UNCHANGED <<cache, files, pc, diagram, has, diagrams, duration, result, calls, intact>>

\* --------------------------------------------------------------- Generate
\* a caller invokes Generate(diagram)
CallGenerate(p) ==
    /\ pc[p] = "idle"
    /\ \E de \in Descriptions, ty \in ImgTypes :
          diagram' = [diagram EXCEPT ![p] = NewDiagram(de, ty)]
    /\ Goto(p, "gen_has")
    /\ UNCHANGED <<now, cache, files, has, diagrams, duration, result, calls, intact>>

\* has, err := c.cache.Has(diagram)
GenHasM(p) ==
    /\ pc[p] = "gen_has"
    /\ Called(p, "Has")
    /\ \/ /\ Return(p, "gen_done", "CacheLookupError")
          /\ diagram' = [diagram EXCEPT ![p] = Touch(@)]
          /\ UNCHANGED has
       \/ /\ has' = [has EXCEPT ![p] = CacheHas(diagram[p])]
          /\ Goto(p, IF CacheHas(diagram[p]) THEN "hit_get" ELSE "miss_touch")
          /\ UNCHANGED <<result, diagram>>
    /\ UNCHANGED <<now, cache, files, diagrams, duration, intact>>

GenHas(p) ==
    /\ pc[p] = "gen_has"
    /\ Called(p, "Has")
    /\ \/ /\ Return(p, "gen_done", "CacheLookupError")
          /\ UNCHANGED has
       \/ /\ has' = [has EXCEPT ![p] = CacheHas(diagram[p])]
          /\ Goto(p, IF CacheHas(diagram[p]) THEN "hit_get" ELSE "miss_touch")
          /\ UNCHANGED result
    /\ UNCHANGED <<now, cache, files, diagram, diagrams, duration, intact>>

\* cached, err := c.cache.Get(diagram); *diagram = *cached
GenHitGet(p) ==
    /\ pc[p] = "hit_get"
    /\ Called(p, "Get")
    /\ \/ /\ Return(p, "gen_done", "CacheReadError")
          /\ UNCHANGED diagram
       \/ /\ CacheHas(diagram[p])
          /\ diagram' = [diagram EXCEPT ![p] = CacheGet(diagram[p])]
          /\ Goto(p, "hit_touch")
          /\ UNCHANGED result
    /\ UNCHANGED <<now, cache, files, has, diagrams, duration, intact>>

\* diagram.Touch() on the hit path
GenHitTouchM(p) ==
    /\ pc[p] = "hit_touch"
    /\ diagram' = [diagram EXCEPT ![p] = [@ EXCEPT !.lastTouched = 0]]
    /\ Goto(p, "hit_store")
    /\ UNCHANGED <<now, cache, files, has, diagrams, duration, result, calls, intact>>

GenHitTouch(p) ==
    /\ pc[p] = "hit_touch"
    /\ diagram' = [diagram EXCEPT ![p] = Touch(@)]
    /\ Goto(p, "hit_store")
    /\ UNCHANGED <<now, cache, files, has, diagrams, duration, result, calls, intact>>

\* c.cache.Store(diagram) on the hit path
GenHitStoreFallsThrough(p) ==
    /\ pc[p] = "hit_store"
    /\ Called(p, "Store")
    /\ \/ /\ Return(p, "gen_done", "CacheWriteError")
          /\ UNCHANGED cache
       \/ /\ cache' = CacheStore(diagram[p])
          /\ Goto(p, "miss_touch")
          /\ UNCHANGED result
    /\ UNCHANGED <<now, files, diagram, has, diagrams, duration, intact>>

GenHitStore(p) ==
    /\ pc[p] = "hit_store"
    /\ Called(p, "Store")
    /\ \/ /\ Return(p, "gen_done", "CacheWriteError")
          /\ UNCHANGED cache
       \/ /\ cache' = CacheStore(diagram[p])
          /\ Return(p, "gen_done", "ok")
    /\ UNCHANGED <<now, files, diagram, has, diagrams, duration, intact>>

\* diagram.Touch() on the miss path
GenMissTouchM(p) ==
    /\ pc[p] = "miss_touch"
    /\ diagram' = [diagram EXCEPT ![p] = Touch(@)]
    /\ cache' = CacheStore(Touch(diagram[p]))
    /\ Goto(p, "gen_write")
    /\ UNCHANGED <<now, files, has, diagrams, duration, result, calls, intact>>

GenMissTouch(p) ==
    /\ pc[p] = "miss_touch"
    /\ diagram' = [diagram EXCEPT ![p] = Touch(@)]
    /\ Goto(p, "gen_write")
    /\ UNCHANGED <<now, cache, files, has, diagrams, duration, result, calls, intact>>

\* generate: diagram.ID(), then ioutil.WriteFile(inPath, diagram.description, 0644)
GenWrite(p) ==
    /\ pc[p] = "gen_write"
    /\ \/ /\ Return(p, "gen_done", "IdentityError")
          /\ UNCHANGED <<files, calls>>
       \/ /\ Called(p, "WriteFile")
          /\ \/ /\ Return(p, "gen_done", "WriteError")
                /\ \/ UNCHANGED files
                   \/ files' = files \cup {InPath(ID(diagram[p]))}
             \/ /\ files' = files \cup {InPath(ID(diagram[p]))}
                /\ Goto(p, "gen_stat")
                /\ UNCHANGED result
    /\ UNCHANGED <<now, cache, diagram, has, diagrams, duration, intact>>

\* generate: os.Stat(c.mermaidCLIPath)
GenStat(p) ==
    /\ pc[p] = "gen_stat"
    /\ Called(p, "Stat")
    /\ \/ Return(p, "gen_done", "BackendMissingError")
       \/ Return(p, "gen_done", "StatError")
       \/ Goto(p, "gen_run") /\ UNCHANGED result
    /\ UNCHANGED <<now, cache, files, diagram, has, diagrams, duration, intact>>

\* generate: cmd.Run(), then diagram.Output = outPath
GenRunM(p) ==
    /\ pc[p] = "gen_run"
    /\ Called(p, "Run")
    /\ \/ /\ Return(p, "gen_done", "RenderError")
          /\ UNCHANGED <<files, diagram>>
       \/ /\ files' = files \cup {OutPath(ID(diagram[p]), diagram[p].imgType)}
          /\ UNCHANGED diagram
          /\ Goto(p, "miss_store")
          /\ UNCHANGED result
    /\ UNCHANGED <<now, cache, has, diagrams, duration, intact>>

GenRunRetries(p) ==
    /\ pc[p] = "gen_run"
    /\ Called(p, "Run")
    /\ \/ /\ Goto(p, "gen_run")
          /\ UNCHANGED <<files, diagram, result>>
       \/ /\ files' = files \cup {OutPath(ID(diagram[p]), diagram[p].imgType)}
          /\ diagram' = [diagram EXCEPT
                ![p] = [@ EXCEPT !.Output = OutPath(ID(diagram[p]), diagram[p].imgType)]]
          /\ Goto(p, "miss_store")
          /\ UNCHANGED result
    /\ UNCHANGED <<now, cache, has, diagrams, duration, intact>>

GenRun(p) ==
    /\ pc[p] = "gen_run"
    /\ Called(p, "Run")
    /\ \/ /\ Return(p, "gen_done", "RenderError")
          /\ UNCHANGED <<files, diagram>>
       \/ /\ files' = files \cup {OutPath(ID(diagram[p]), diagram[p].imgType)}
          /\ diagram' = [diagram EXCEPT
                ![p] = [@ EXCEPT !.Output = OutPath(ID(diagram[p]), diagram[p].imgType)]]
          /\ Goto(p, "miss_store")
          /\ UNCHANGED result
    /\ UNCHANGED <<now, cache, has, diagrams, duration, intact>>

\* c.cache.Store(diagram) on the miss path
GenMissStoreM(p) ==
    /\ pc[p] = "miss_store"
    /\ Called(p, "Store")
    /\ \/ /\ Return(p, "gen_done", "CacheWriteError")
          /\ UNCHANGED cache
       \/ /\ cache' = IF CacheHas(diagram[p]) THEN cache ELSE CacheStore(diagram[p])
          /\ Return(p, "gen_done", "ok")
    /\ UNCHANGED <<now, files, diagram, has, diagrams, duration, intact>>

GenMissStore(p) ==
    /\ pc[p] = "miss_store"
    /\ Called(p, "Store")
    /\ \/ /\ Return(p, "gen_done", "CacheWriteError")
          /\ UNCHANGED cache
       \/ /\ cache' = CacheStore(diagram[p])
          /\ Return(p, "gen_done", "ok")
    /\ UNCHANGED <<now, files, diagram, has, diagrams, duration, intact>>

\* ---------------------------------------------------------------- CleanUp
\* a caller invokes CleanUp(duration)
CallCleanUp(p) ==
    /\ pc[p] = "idle"
    /\ \E w \in Windows : duration' = [duration EXCEPT ![p] = w]
    /\ Goto(p, "cu_getall")
    /\ UNCHANGED <<now, cache, files, diagram, has, diagrams, result, calls, intact>>

\* every enumerated record is stale, and the files on disk are exactly the
\* input and output files Generate wrote for the enumerated records
AllStaleIntact(ds, w) ==
    /\ \A d \in ds : ~TouchedInDuration(d, w)
    /\ files = {InPath(ID(d)) : d \in ds} \cup {OutPath(ID(d), d.imgType) : d \in ds}

\* diagrams, err := c.cache.GetAll()
CuGetAllM(p) ==
    /\ pc[p] = "cu_getall"
    /\ \/ /\ diagrams' = [diagrams EXCEPT ![p] = CacheGetAll]
          /\ result' = [result EXCEPT ![p] = "CacheEnumerationError"]
          /\ Goto(p, "cu_loop")
          /\ UNCHANGED intact
       \/ /\ diagrams' = [diagrams EXCEPT ![p] = CacheGetAll]
          /\ intact' = [intact EXCEPT ![p] = AllStaleIntact(CacheGetAll, duration[p])]
          /\ Goto(p, "cu_loop")
          /\ UNCHANGED result
    /\ UNCHANGED <<now, cache, files, diagram, has, duration, calls>>

CuGetAll(p) ==
    /\ pc[p] = "cu_getall"
    /\ \/ /\ Return(p, "cu_done", "CacheEnumerationError")
          /\ UNCHANGED <<diagrams, intact>>
       \/ /\ diagrams' = [diagrams EXCEPT ![p] = CacheGetAll]
          /\ intact' = [intact EXCEPT ![p] = AllStaleIntact(CacheGetAll, duration[p])]
          /\ Goto(p, "cu_loop")
          /\ UNCHANGED result
    /\ UNCHANGED <<now, cache, files, diagram, has, duration, calls>>

\* for _, d := range diagrams { if !d.TouchedInDuration(duration) { c.delete(d) } }
CuLoopM(p) ==
    /\ pc[p] = "cu_loop"
    /\ \/ /\ diagrams[p] = {}
          /\ Return(p, "cu_done", "ok")
          /\ UNCHANGED <<diagrams, diagram>>
       \/ \E d \in diagrams[p] :
            /\ diagrams' = [diagrams EXCEPT ![p] = @ \ {d}]
            /\ IF d.lastTouched > now - duration[p]
                 THEN Goto(p, "cu_loop") /\ UNCHANGED diagram
                 ELSE /\ diagram' = [diagram EXCEPT ![p] = d]
                      /\ Goto(p, "del_in")
            /\ UNCHANGED result
    /\ UNCHANGED <<now, cache, files, has, duration, calls, intact>>

CuLoop(p) ==
    /\ pc[p] = "cu_loop"
    /\ \/ /\ diagrams[p] = {}
          /\ Return(p, "cu_done", "ok")
          /\ UNCHANGED <<diagrams, diagram>>
       \/ \E d \in diagrams[p] :
            /\ diagrams' = [diagrams EXCEPT ![p] = @ \ {d}]
            /\ IF TouchedInDuration(d, duration[p])
                 THEN Goto(p, "cu_loop") /\ UNCHANGED diagram
                 ELSE /\ diagram' = [diagram EXCEPT ![p] = d]
                      /\ Goto(p, "del_in")
            /\ UNCHANGED result
    /\ UNCHANGED <<now, cache, files, has, duration, calls, intact>>

\* os.Remove(path): fails when the file is absent, and may fail otherwise
RemoveM(p, path, next) ==
    \/ /\ path \notin files
       /\ Goto(p, next)
       /\ UNCHANGED <<files, result>>
    \/ /\ path \in files
       /\ \/ /\ Return(p, "cu_done", "FileDeleteError")
             /\ UNCHANGED files
          \/ /\ files' = files \ {path}
             /\ Goto(p, next)
             /\ UNCHANGED result

Remove(p, path, next) ==
    \/ /\ path \notin files
       /\ Return(p, "cu_done", "FileDeleteError:NotExist")
       /\ UNCHANGED files
    \/ /\ path \in files
       /\ \/ /\ Return(p, "cu_done", "FileDeleteError")
             /\ UNCHANGED files
          \/ /\ files' = files \ {path}
             /\ Goto(p, next)
             /\ UNCHANGED result

\* delete: os.Remove(inPath)
DelInM(p) ==
    /\ pc[p] = "del_in"
    /\ \/ /\ Goto(p, "del_out")
          /\ UNCHANGED <<files, result>>
       \/ /\ InPath(ID(diagram[p])) \in files
          /\ files' = files \ {InPath(ID(diagram[p]))}
          /\ Goto(p, "del_out")
          /\ UNCHANGED result
    /\ UNCHANGED <<now, cache, diagram, has, diagrams, duration, calls, intact>>

DelIn(p) ==
    /\ pc[p] = "del_in"
    /\ Remove(p, InPath(ID(diagram[p])), "del_out")
    /\ UNCHANGED <<now, cache, diagram, has, diagrams, duration, calls, intact>>

\* delete: os.Remove(outPath)
DelOut(p) ==
    /\ pc[p] = "del_out"
    /\ Remove(p, DeleteOutPath(ID(diagram[p])), "del_cache")
    /\ UNCHANGED <<now, cache, diagram, has, diagrams, duration, calls, intact>>

\* delete: c.cache.Delete(diagram), then back to the range loop
DelCache(p) ==
    /\ pc[p] = "del_cache"
    /\ \/ /\ ~CacheHas(diagram[p])
          /\ Return(p, "cu_done", "CacheDeleteError:Absent")
          /\ UNCHANGED cache
       \/ /\ CacheHas(diagram[p])
          /\ \/ /\ Return(p, "cu_done", "CacheDeleteError")
                /\ UNCHANGED cache
             \/ /\ cache' = CacheDelete(diagram[p])
                /\ Goto(p, "cu_loop")
                /\ UNCHANGED result
    /\ UNCHANGED <<now, files, diagram, has, diagrams, duration, calls, intact>>

\* the call returns to its caller
Finish(p) ==
    /\ pc[p] \in {"gen_done", "cu_done"}
    /\ pc' = [pc EXCEPT ![p] = "idle"]
    /\ diagram' = [diagram EXCEPT ![p] = NoDiagram]
    /\ has' = [has EXCEPT ![p] = FALSE]
    /\ diagrams' = [diagrams EXCEPT ![p] = {}]
    /\ duration' = [duration EXCEPT ![p] = 0]
    /\ result' = [result EXCEPT ![p] = "none"]
    /\ calls' = [calls EXCEPT ![p] = <<>>]
    /\ intact' = [intact EXCEPT ![p] = FALSE]
    /\ UNCHANGED <<now, cache, files>>

Step(p) ==
    \/ CallGenerate(p)
    \/ GenHas(p)
    \/ GenHitGet(p)
    \/ GenHitTouch(p)
    \/ GenHitStore(p)
    \/ GenMissTouch(p)
    \/ GenWrite(p)
    \/ GenStat(p)
    \/ GenRun(p)
    \/ GenMissStore(p)
    \/ CallCleanUp(p)
    \/ CuGetAll(p)
    \/ CuLoop(p)
    \/ DelIn(p)
    \/ DelOut(p)
    \/ DelCache(p)
    \/ Finish(p)

\* calls may overlap
Next == Tick \/ \E p \in Procs : Step(p)

Spec == Init /\ [][Next]_vars

\* calls run one after another: a call starts only while no other call is running
SeqCallGenerate(p) == (\A q \in Procs : pc[q] = "idle") /\ CallGenerate(p)

SeqCallCleanUp(p) == (\A q \in Procs : pc[q] = "idle") /\ CallCleanUp(p)

SeqStep(p) ==
    \/ SeqCallGenerate(p)
    \/ GenHas(p)
    \/ GenHitGet(p)
    \/ GenHitTouch(p)
    \/ GenHitStore(p)
    \/ GenMissTouch(p)
    \/ GenWrite(p)
    \/ GenStat(p)
    \/ GenRun(p)
    \/ GenMissStore(p)
    \/ SeqCallCleanUp(p)
    \/ CuGetAll(p)
    \/ CuLoop(p)
    \/ DelIn(p)
    \/ DelOut(p)
    \/ DelCache(p)
    \/ Finish(p)

SeqNext == Tick \/ \E p \in Procs : SeqStep(p)

SeqSpec == Init /\ [][SeqNext]_vars

\* the errors of the cache store's own calls
CacheErrors ==
    {"CacheLookupError", "CacheReadError", "CacheWriteError", "CacheEnumerationError",
     "CacheDeleteError", "CacheDeleteError:Absent"}

\* the step of p does not end in a failure of a cache-store call
Reliable(p) == result'[p] \notin CacheErrors

\* calls may overlap, and no call on the cache store fails
ReliableStep(p) ==
    \/ CallGenerate(p) /\ Reliable(p)
    \/ GenHas(p) /\ Reliable(p)
    \/ GenHitGet(p) /\ Reliable(p)
    \/ GenHitTouch(p) /\ Reliable(p)
    \/ GenHitStore(p) /\ Reliable(p)
    \/ GenMissTouch(p) /\ Reliable(p)
    \/ GenWrite(p) /\ Reliable(p)
    \/ GenStat(p) /\ Reliable(p)
    \/ GenRun(p) /\ Reliable(p)
    \/ GenMissStore(p) /\ Reliable(p)
    \/ CallCleanUp(p) /\ Reliable(p)
    \/ CuGetAll(p) /\ Reliable(p)
    \/ CuLoop(p) /\ Reliable(p)
    \/ DelIn(p) /\ Reliable(p)
    \/ DelOut(p) /\ Reliable(p)
    \/ DelCache(p) /\ Reliable(p)
    \/ Finish(p) /\ Reliable(p)

ReliableCacheNext == Tick \/ \E p \in Procs : ReliableStep(p)

ReliableCacheSpec == Init /\ [][ReliableCacheNext]_vars

\* ========================================================== properties
Count(s, op) == Cardinality({k \in DOMAIN s : s[k] = op})

Running(p) == pc[p] \notin {"idle", "gen_done", "cu_done"}

Moved(p) == pc'[p] # pc[p]

\* C1: a Generate call that observed a miss and succeeded has invoked the
\* rendering backend exactly once, and the cache store then holds a record for
\* the identity whose Output is nonempty and is <outDir>/<identity>.<imageType>.
C1_MissRendersOnceAndPersists ==
    \A p \in Procs :
        (pc[p] = "gen_done" /\ result[p] = "ok" /\ ~has[p]) =>
            /\ Count(calls[p], "Run") = 1
            /\ CacheHas(diagram[p])
            /\ cache[ID(diagram[p])].Output # NoOutput
            /\ cache[ID(diagram[p])].Output
                  = <<"out", ID(diagram[p]), diagram[p].imgType>>

C1_Witness ==
    \E p \in Procs :
        /\ pc[p] = "gen_done" /\ result[p] = "ok" /\ ~has[p]
        /\ Count(calls[p], "Run") = 1
        /\ CacheHas(diagram[p])

\* C2: once Has has returned true, no step of that Generate call writes a file
\* or invokes the backend, whether the call ends in success or in a Get/Store
\* failure; a successful call returns the Output path of the cached record.
C2_HitNeverRenders ==
    [][\A p \in Procs :
          (has[p] /\ Running(p) /\ Moved(p)) =>
              /\ files' = files
              /\ Count(calls'[p], "Run") = 0
              /\ Count(calls'[p], "WriteFile") = 0
              /\ (pc'[p] = "gen_done" /\ result'[p] = "ok") =>
                    /\ CacheHas(diagram[p])
                    /\ diagram'[p].Output = cache[ID(diagram[p])].Output]_vars

C2_Witness ==
    \E p \in Procs :
        /\ pc[p] = "gen_done" /\ result[p] = "ok" /\ has[p]
        /\ diagram[p].Output = <<"out", ID(diagram[p]), diagram[p].imgType>>
        /\ calls[p] = <<"Has", "Get", "Store">>

\* C3: no step of the miss path before the upsert (touch, identity derivation,
\* input-file write, backend presence check, backend execution) changes the
\* cache store, and the identity that had no record still has none.
C3_FailureBeforeUpsertLeavesCache ==
    [][\A p \in Procs :
          (pc[p] \in {"miss_touch", "gen_write", "gen_stat", "gen_run"} /\ Moved(p)) =>
              /\ cache' = cache
              /\ cache'[ID(diagram[p])] = NoDiagram]_vars

C3_Witness ==
    \E p \in Procs :
        /\ pc[p] = "gen_done" /\ result[p] = "RenderError" /\ ~has[p]
        /\ ~CacheHas(diagram[p])
        /\ \E i \in Ids : cache[i] # NoDiagram

DeleteErrors ==
    {"FileDeleteError", "FileDeleteError:NotExist", "CacheDeleteError", "CacheDeleteError:Absent"}

\* C4: when the deletion of one stale record has failed, every other stale
\* record enumerated by the same sweep has still been deleted when the sweep
\* returns.
C4_SweepContinuesAfterFailure ==
    \A p \in Procs :
        (pc[p] = "cu_done" /\ result[p] \in DeleteErrors) =>
            \A d \in diagrams[p] : ~TouchedInDuration(d, duration[p]) => ~CacheHas(d)

\* failures of the collaborators themselves, as opposed to a file or record
\* that is not there
InjectedErrors == {"CacheEnumerationError", "FileDeleteError", "CacheDeleteError"}

\* C5: a sweep that met no collaborator failure, over records that were all
\* stale and all had the files Generate wrote, ends with an empty cache store
\* and no input or output file, whatever the image types of the records.
C5_SweepRemovesEveryStaleRecord ==
    \A p \in Procs :
        (pc[p] = "cu_done" /\ intact[p] /\ result[p] \notin InjectedErrors) =>
            /\ \A i \in Ids : cache[i] = NoDiagram
            /\ files = {}

\* the record the range loop visits in this step
Visited(p) == CHOOSE d \in diagrams[p] : d \notin diagrams'[p]

OtherFiles(fs, i) == {f \in fs : f[2] # i}

\* C6: the sweep sends a record to deletion exactly when its lastTouched is
\* older than now - W; a deletion whose three sub-steps succeed removes the
\* record, its input file and its output file; a retained record keeps its
\* record and files, and a deletion touches nothing of any other identity.
C6_RetentionBoundary ==
    [][\A p \in Procs :
          /\ (pc[p] = "cu_loop" /\ diagrams'[p] # diagrams[p]) =>
                /\ (pc'[p] = "del_in") <=> (Visited(p).lastTouched < now - duration[p])
                /\ (pc'[p] = "del_in") => diagram'[p] = Visited(p)
                /\ cache' = cache /\ files' = files
          /\ (pc[p] = "del_cache" /\ pc'[p] = "cu_loop") =>
                /\ cache'[ID(diagram[p])] = NoDiagram
                /\ <<"in", ID(diagram[p]), "mmd">> \notin files'
                /\ <<"out", ID(diagram[p]), diagram[p].imgType>> \notin files'
          /\ (pc[p] \in {"del_in", "del_out", "del_cache"} /\ Moved(p)) =>
                /\ \A i \in Ids \ {ID(diagram[p])} : cache'[i] = cache[i]
                /\ OtherFiles(files', ID(diagram[p])) = OtherFiles(files, ID(diagram[p]))]_vars

C6_Witness ==
    \E p \in Procs :
        /\ pc[p] = "cu_done" /\ result[p] = "ok"
        /\ diagram[p] # NoDiagram
        /\ ~CacheHas(diagram[p])
        /\ \E i \in Ids :
              /\ cache[i] # NoDiagram
              /\ cache[i].lastTouched = now - duration[p]
              /\ InPath(i) \in files /\ cache[i].Output \in files

\* C7: when calls run one after another, the lastTouched stored for an
\* identity never decreases, and the lastTouched a successful Generate returns
\* is the stored one, hence at least what any earlier call returned.
C7_TouchMonotoneSequential ==
    [][/\ \A i \in Ids :
            (cache[i] # NoDiagram /\ cache'[i] # NoDiagram) =>
                cache'[i].lastTouched >= cache[i].lastTouched
       /\ \A p \in Procs :
            (Moved(p) /\ pc'[p] = "gen_done" /\ result'[p] = "ok") =>
                /\ cache'[ID(diagram'[p])].lastTouched = diagram'[p].lastTouched
                /\ CacheHas(diagram[p]) =>
                      diagram'[p].lastTouched >= cache[ID(diagram[p])].lastTouched]_vars

C7_Witness ==
    \E p \in Procs :
        /\ pc[p] = "hit_store"
        /\ CacheHas(diagram[p])
        /\ diagram[p].lastTouched > cache[ID(diagram[p])].lastTouched

\* C8: the upsert that ends the miss path overwrites whatever record a
\* concurrent call has stored for the identity in the meantime: the record in
\* the cache store is the one of the Store that executed last.
C8_LastStoreWins ==
    [][\A p \in Procs :
          (pc[p] = "miss_store" /\ pc'[p] = "gen_done" /\ result'[p] = "ok") =>
              cache'[ID(diagram[p])] = diagram[p]]_vars

\* two overlapping calls both missed, both wrote the input file, both ran the
\* backend and both upserted; the record left is the later writer's
C8_Witness ==
    \E p \in Procs, q \in Procs :
        /\ p # q
        /\ pc[p] = "gen_done" /\ result[p] = "ok" /\ ~has[p]
        /\ pc[q] = "gen_done" /\ result[q] = "ok" /\ ~has[q]
        /\ ID(diagram[p]) = ID(diagram[q])
        /\ calls[p] = <<"Has", "WriteFile", "Stat", "Run", "Store">>
        /\ calls[q] = <<"Has", "WriteFile", "Stat", "Run", "Store">>
        /\ diagram[p].lastTouched # diagram[q].lastTouched
        /\ cache[ID(diagram[p])] = diagram[p]

FilesOf(i, dir) == {f \in files : f[1] = dir /\ f[2] = i}

C10_HasFailureNoSideEffects ==
    [][\A p \in Procs :
          (pc[p] = "gen_has" /\ pc'[p] = "gen_done") =>
              /\ result'[p] = "CacheLookupError"
              /\ cache' = cache
              /\ files' = files
              /\ diagram'[p] = diagram[p]
              /\ calls'[p] = <<"Has">>]_vars

C10_Witness ==
    \E p \in Procs :
        /\ pc[p] = "gen_done" /\ result[p] = "CacheLookupError"
        /\ calls[p] = <<"Has">>
        /\ now > 0

\* C11: a failing GetAll ends CleanUp in that very step with an error: nothing
\* is enumerated, and no input file, output file or cache record is removed
\* by the call.
C11_GetAllFailureDeletesNothing ==
    [][\A p \in Procs :
          /\ (pc[p] = "cu_getall" /\ Moved(p) /\ result'[p] = "CacheEnumerationError") =>
                /\ pc'[p] = "cu_done"
                /\ diagrams'[p] = {}
                /\ cache' = cache
                /\ files' = files
          /\ (result[p] = "CacheEnumerationError" /\ Moved(p)) =>
                /\ pc'[p] = "idle"
                /\ cache' = cache
                /\ files' = files]_vars

C11_Witness ==
    \E p \in Procs :
        /\ pc[p] = "cu_done" /\ result[p] = "CacheEnumerationError"
        /\ \E i \in Ids :
              /\ cache[i] # NoDiagram
              /\ ~TouchedInDuration(cache[i], duration[p])
              /\ InPath(i) \in files

\* C12: under any interleaving of Generate calls, the lastTouched stored in
\* the cache for an identity is never replaced by an earlier value.
C12_TouchMonotoneConcurrent ==
    [][\A i \in Ids :
          (cache[i] # NoDiagram /\ cache'[i] # NoDiagram) =>
              cache'[i].lastTouched >= cache[i].lastTouched]_vars

\* some CleanUp is between the first and the last sub-step of deleting i
Deleting(i) ==
    \E p \in Procs : pc[p] \in {"del_out", "del_cache"} /\ ID(diagram[p]) = i

\* C13: when no cache-store call fails, every cache record with a nonempty
\* Output has its artifact file at that path.  Stated outside the window in
\* which a delete has removed the files of the record and not yet the record.
C13_RecordHasArtifact ==
    \A i \in Ids :
        (cache[i] # NoDiagram /\ cache[i].Output # NoOutput /\ ~Deleting(i)) =>
            cache[i].Output \in files

\* the step of p ends CleanUp with a deletion error and changes neither the
\* files nor the cache store
DeleteAborts(p) ==
    /\ pc'[p] = "cu_done"
    /\ result'[p] \in DeleteErrors
    /\ files' = files
    /\ cache' = cache

\* C14: delete removes the input file, then the output file, then the cache
\* record, and the first sub-step that fails ends it: a failed input removal
\* leaves the output file and the record, a failed output removal leaves the
\* record; an output file goes only after the input file, a record only after
\* both.
C14_DeleteStopsAtFirstFailure ==
    [][/\ \A p \in Procs :
            /\ (pc[p] = "del_in" /\ Moved(p)) =>
                  \/ DeleteAborts(p)
                  \/ /\ InPath(ID(diagram[p])) \in files
                     /\ files' = files \ {InPath(ID(diagram[p]))}
                     /\ cache' = cache
                     /\ pc'[p] = "del_out"
            /\ (pc[p] = "del_out" /\ Moved(p)) =>
                  \/ DeleteAborts(p)
                  \/ /\ DeleteOutPath(ID(diagram[p])) \in files
                     /\ files' = files \ {DeleteOutPath(ID(diagram[p]))}
                     /\ cache' = cache
                     /\ pc'[p] = "del_cache"
            /\ (pc[p] = "del_cache" /\ Moved(p)) =>
                  \/ DeleteAborts(p)
                  \/ /\ cache[ID(diagram[p])] # NoDiagram
                     /\ cache' = [cache EXCEPT ![ID(diagram[p])] = NoDiagram]
                     /\ files' = files
                     /\ pc'[p] = "cu_loop"
       /\ \A i \in Ids :
            /\ (DeleteOutPath(i) \in files /\ DeleteOutPath(i) \notin files') =>
                  InPath(i) \notin files
            /\ (cache[i] # NoDiagram /\ cache'[i] = NoDiagram) =>
                  /\ InPath(i) \notin files
                  /\ DeleteOutPath(i) \notin files]_vars

\* the output removal failed: the input file is gone, output file and record stay
C14_Witness ==
    \E p \in Procs :
        /\ pc[p] = "cu_done" /\ result[p] = "FileDeleteError"
        /\ CacheHas(diagram[p])
        /\ InPath(ID(diagram[p])) \notin files
        /\ DeleteOutPath(ID(diagram[p])) \in files

\* identity i has a record, and its input file or its output file is absent
Broken(i) ==
    /\ cache[i] # NoDiagram
    /\ \/ InPath(i) \notin files
       \/ OutPath(i, cache[i].imgType) \notin files

\* C15: deleting a stale record whose input file or output file is absent ends
\* with a deletion error and leaves the record; such a record stays, with a
\* file missing, through every later call, so repeating CleanUp ends the same.
C15_AbsentFileSurfacesError ==
    [][/\ \A p \in Procs :
            /\ (pc[p] = "del_in" /\ Moved(p) /\ InPath(ID(diagram[p])) \notin files) =>
                  DeleteAborts(p)
            /\ (pc[p] = "del_out" /\ Moved(p)
                  /\ OutPath(ID(diagram[p]), diagram[p].imgType) \notin files) =>
                  DeleteAborts(p)
       /\ \A i \in Ids :
            (Broken(i) /\ ~Deleting(i)) => Broken(i)']_vars

\* a second sweep over an svg record whose input file an earlier, partially
\* failed deletion removed
C15_Witness ==
    \E p \in Procs :
        /\ pc[p] = "cu_done" /\ result[p] = "FileDeleteError:NotExist"
        /\ diagram[p].imgType = "svg"
        /\ CacheHas(diagram[p])
        /\ InPath(ID(diagram[p])) \notin files
        /\ OutPath(ID(diagram[p]), "svg") \in files

\* C16: a Generate call writes the input file at most once and invokes the
\* backend at most once, and only after the write and the presence check; a
\* call that failed at the identity, the write or the presence check has not
\* invoked it, and a failed backend run has ended the call after that one run.
C16_NoRetry ==
    \A p \in Procs :
        /\ Count(calls[p], "WriteFile") <= 1
        /\ Count(calls[p], "Stat") <= 1
        /\ Count(calls[p], "Run") <= 1
        /\ Count(calls[p], "Run") = 1 =>
              /\ Count(calls[p], "WriteFile") = 1
              /\ Count(calls[p], "Stat") = 1
        /\ result[p] \in {"IdentityError", "WriteError", "BackendMissingError", "StatError"} =>
              Count(calls[p], "Run") = 0
        /\ result[p] = "RenderError" =>
              /\ pc[p] = "gen_done"
              /\ calls[p] = <<"Has", "WriteFile", "Stat", "Run">>

C16_Witness ==
    \E p \in Procs, q \in Procs :
        /\ pc[p] = "gen_done" /\ result[p] = "RenderError"
        /\ calls[p] = <<"Has", "WriteFile", "Stat", "Run">>
        /\ pc[q] = "gen_done" /\ result[q] = "BackendMissingError"
        /\ calls[q] = <<"Has", "WriteFile", "Stat">>

\* C17: no sub-step of delete removes a file or the record of an identity
\* whose record in the cache store, at that moment, was touched within the
\* sweep's retention window.
C17_NoEvictionOfRefreshed ==
    [][\A p \in Procs :
          (/\ pc[p] \in {"del_in", "del_out", "del_cache"}
           /\ Moved(p)
           /\ (files' # files \/ cache' # cache)
           /\ CacheHas(diagram[p])) =>
              ~TouchedInDuration(cache[ID(diagram[p])], duration[p])]_vars

\* C18: whenever no call is in progress, every input file <identity>.mmd in
\* the input directory has a cache record for that identity.
C18_NoOrphanInput ==
    (\A p \in Procs : pc[p] = "idle") =>
        \A i \in Ids : InPath(i) \in files => cache[i] # NoDiagram

====
